---- MODULE Spec2Model ----
(***************************************************************************)
(* A model of fastmcp_github_oauth_example/server.py: the startup sequence *)
(* of main() and create_server(), the /health route and the four tools.    *)
(*                                                                         *)
(* Python values are tagged tuples: None is <<"none">>, a str s is         *)
(* <<"str", s>>, an int n is <<"int", n>>, a bool <<"bool", b>>, a list    *)
(* <<"list", seq>>, a dict <<"dict", function>>, an object <<"obj", rec>>. *)
(* The process environment (os.environ) is a function from the names of    *)
(* the variables that are set to their string values.                      *)
(***************************************************************************)
EXTENDS Integers, Sequences, FiniteSets, TLC

VARIABLES env, pc, auth_provider, mcp, server, port, host, listening,
          exc, out, exitCode, resp

vars == <<env, pc, auth_provider, mcp, server, port, host, listening,
          exc, out, exitCode, resp>>

(* ------------------------------ bounds -------------------------------- *)

\* the largest number of claims a token of the model carries
MaxClaims == 2

(* --------------------------- Python values ---------------------------- *)

None == <<"none">>

PyStr(s) == <<"str", s>>

PyInt(n) == <<"int", n>>

PyBool(b) == <<"bool", b>>

PyList(l) == <<"list", l>>

PyDict(d) == <<"dict", d>>

PyObj(r) == <<"obj", r>>

\* Python truthiness of the values os.getenv can return: None and "" are falsy
Truthy(v) == v # None /\ v # PyStr("")

(* ---------------------------- environment ----------------------------- *)

EnvVars == {"GITHUB_CLIENT_ID", "GITHUB_CLIENT_SECRET", "BASE_URL", "PORT", "HOST"}

\* the values each variable takes in the model when it is set
EnvValues ==
  [GITHUB_CLIENT_ID     |-> {"", "Iv1.8a61f9b3a7aba766", "s3cr3t"},
   GITHUB_CLIENT_SECRET |-> {"", "s3cr3t"},
   BASE_URL             |-> {"https://mcp.example.com"},
   PORT                 |-> {"9000", " 80", "abc", ""},
   HOST                 |-> {"127.0.0.1"}]

\* every environment of the model: any subset of the variables set, each to
\* one of its values
AllEnvValues == UNION {EnvValues[v] : v \in EnvVars}

Environments ==
  UNION {{e \in [S -> AllEnvValues] : \A v \in S : e[v] \in EnvValues[v]} :
         S \in SUBSET EnvVars}

\* mutant of getenv_default: os.getenv(var) or default, which also replaces
\* a variable set to the empty string
getenv_default_OrDefault(var, default) ==
  IF var \in DOMAIN env /\ env[var] # "" THEN PyStr(env[var]) ELSE default

\* os.getenv(var, default): the value when the variable is set, else default
getenv_default(var, default) ==
  IF var \in DOMAIN env THEN PyStr(env[var]) ELSE default

\* os.getenv(var): None when the variable is not set
getenv(var) == getenv_default(var, None)


(* ------------------------------ int(str) ------------------------------ *)

\* the characters of the strings int() is applied to: the values of PORT
\* and the default "8000"
Chars(s) ==
  CASE s = "8000" -> <<"8", "0", "0", "0">>
    [] s = "9000" -> <<"9", "0", "0", "0">>
    [] s = " 80"  -> <<" ", "8", "0">>
    [] s = "abc"  -> <<"a", "b", "c">>
    [] s = ""     -> <<>>

Whitespace == {" ", "\t", "\n", "\r"}

DigitValue(c) ==
  CASE c = "0" -> 0 [] c = "1" -> 1 [] c = "2" -> 2 [] c = "3" -> 3 [] c = "4" -> 4
    [] c = "5" -> 5 [] c = "6" -> 6 [] c = "7" -> 7 [] c = "8" -> 8 [] c = "9" -> 9

IsDigit(c) == c \in {"0", "1", "2", "3", "4", "5", "6", "7", "8", "9"}

RECURSIVE LStrip(_)
LStrip(cs) ==
  IF cs # <<>> /\ Head(cs) \in Whitespace THEN LStrip(Tail(cs)) ELSE cs

RECURSIVE RStrip(_)
RStrip(cs) ==
  IF cs # <<>> /\ cs[Len(cs)] \in Whitespace
  THEN RStrip(SubSeq(cs, 1, Len(cs) - 1)) ELSE cs

\* a decimal literal: digits, with single underscores between digits only
IsDecimal(cs) ==
  /\ cs # <<>>
  /\ \A i \in 1..Len(cs) : IsDigit(cs[i]) \/ cs[i] = "_"
  /\ \A i \in 1..Len(cs) :
       cs[i] = "_" => /\ i > 1 /\ i < Len(cs)
                      /\ IsDigit(cs[i - 1]) /\ IsDigit(cs[i + 1])

RECURSIVE DecimalValue(_, _)
DecimalValue(cs, acc) ==
  IF cs = <<>> THEN acc
  ELSE IF Head(cs) = "_" THEN DecimalValue(Tail(cs), acc)
  ELSE DecimalValue(Tail(cs), 10 * acc + DigitValue(Head(cs)))

\* int(s) for a str s in base 10: surrounding whitespace is dropped, a sign
\* is allowed, and anything else that is not a decimal literal raises
\* ValueError.  The result is <<"ok", n>> or <<"raise", "ValueError">>.
int(s) ==
  LET t    == RStrip(LStrip(Chars(s)))
      sign == IF t # <<>> /\ Head(t) \in {"+", "-"} THEN Head(t) ELSE ""
      body == IF sign = "" THEN t ELSE Tail(t)
  IN  IF IsDecimal(body)
      THEN <<"ok", IF sign = "-" THEN 0 - DecimalValue(body, 0)
                   ELSE DecimalValue(body, 0)>>
      ELSE <<"raise", "ValueError">>

(* ----------------------------- exceptions ----------------------------- *)

\* the exception classes of the model and their base classes (reflexive)
Bases(cls) ==
  CASE cls = "ValueError"     -> {"ValueError", "Exception", "BaseException"}
    [] cls = "OSError"        -> {"OSError", "Exception", "BaseException"}
    [] cls = "AttributeError" -> {"AttributeError", "Exception", "BaseException"}

\* an exception in flight: its class, its message and the call that raised it
Raised(cls, msg, origin) ==
  <<"exc", [cls |-> cls, msg |-> msg, origin |-> origin]>>

isinstance(e, cls) == e # None /\ cls \in Bases(e[2].cls)


(* ------------------------------- tokens ------------------------------- *)

\* the claim names of the model: the thirteen that get_user_info reads, the
\* "scopes" that get_oauth_status reads, and two that no handler reads
ClaimNames ==
  {"login", "name", "email", "avatar_url", "company", "location",
   "public_repos", "followers", "following", "bio", "blog", "created_at",
   "updated_at", "scopes", "id", "github_user"}

\* the values a claim takes in the model
ClaimValues(k) ==
  IF k = "scopes" THEN {PyList(<<>>), PyList(<<"user:email">>)}
  ELSE IF k \in {"public_repos", "followers", "following", "id"}
       THEN {PyInt(0), PyInt(7)}
  ELSE {PyStr("octocat"), PyStr("s3cr3t")}

AllClaimValues == UNION {ClaimValues(k) : k \in ClaimNames}

\* the claims mappings of the model: at most MaxClaims claims present
ClaimSets ==
  UNION {{c \in [S -> AllClaimValues] : \A k \in S : c[k] \in ClaimValues(k)} :
         S \in {T \in SUBSET ClaimNames : Cardinality(T) <= MaxClaims}}

\* what get_access_token() returns for a request: the validated access
\* token of the request, or None when the request carries none
AccessTokens == {None} \cup {PyObj([claims |-> c]) : c \in ClaimSets}

\* dict.get(key, default)
dict_get(d, key, default) == IF key \in DOMAIN d THEN d[key] ELSE default

\* token.claims.get(key, default), for a token that is not None
claims_get(token, key, default) == dict_get(token[2].claims, key, default)

(* ------------------------------ handlers ------------------------------ *)

\* mutant of health: the status depends on the caller being authenticated
health_AuthAware(request) ==
  [status_code |-> 200,
   body |-> [status  |-> IF request.token = None THEN PyStr("unauthenticated")
                         ELSE PyStr("healthy"),
             service |-> PyStr("fastmcp-github-oauth"),
             version |-> PyStr("0.1.0")]]

\* the handler of the /health route: the request is not read
health(request) ==
  [status_code |-> 200,
   body |-> [status  |-> PyStr("healthy"),
             service |-> PyStr("fastmcp-github-oauth"),
             version |-> PyStr("0.1.0")]]

\* create_health_endpoint(): Route("/health", health, methods=["GET"])
create_health_endpoint ==
  [path |-> "/health", endpoint |-> "health", methods |-> {"GET"}]

\* a handler's outcome: the payload it returns, or the exception it raises
Returns(payload) == <<"ok", payload>>

Raises(cls) == <<"raise", cls>>

\* mutant of get_user_info: github_user is read from a claim of its own
\* name instead of "login"
get_user_info_WrongClaim(token) ==
  IF token = None THEN Raises("AttributeError")
  ELSE Returns(
    [github_user  |-> claims_get(token, "github_user", None),
     name         |-> claims_get(token, "name", None),
     email        |-> claims_get(token, "email", None),
     avatar_url   |-> claims_get(token, "avatar_url", None),
     company      |-> claims_get(token, "company", None),
     location     |-> claims_get(token, "location", None),
     public_repos |-> claims_get(token, "public_repos", None),
     followers    |-> claims_get(token, "followers", None),
     following    |-> claims_get(token, "following", None),
     bio          |-> claims_get(token, "bio", None),
     blog         |-> claims_get(token, "blog", None),
     created_at   |-> claims_get(token, "created_at", None),
     updated_at   |-> claims_get(token, "updated_at", None)])

\* get_user_info(): token.claims on a None token raises AttributeError
get_user_info(token) ==
  IF token = None THEN Raises("AttributeError")
  ELSE Returns(
    [github_user  |-> claims_get(token, "login", None),
     name         |-> claims_get(token, "name", None),
     email        |-> claims_get(token, "email", None),
     avatar_url   |-> claims_get(token, "avatar_url", None),
     company      |-> claims_get(token, "company", None),
     location     |-> claims_get(token, "location", None),
     public_repos |-> claims_get(token, "public_repos", None),
     followers    |-> claims_get(token, "followers", None),
     following    |-> claims_get(token, "following", None),
     bio          |-> claims_get(token, "bio", None),
     blog         |-> claims_get(token, "blog", None),
     created_at   |-> claims_get(token, "created_at", None),
     updated_at   |-> claims_get(token, "updated_at", None)])

get_server_info ==
  Returns(
    [server_name   |-> PyStr("FastMCP GitHub OAuth Example"),
     version       |-> PyStr("0.1.0"),
     auth_provider |-> PyStr("GitHub OAuth"),
     transport     |-> PyStr("HTTP Streamable"),
     container     |-> PyStr("Docker Multi-arch"),
     build_system  |-> PyStr("GoReleaser + uv"),
     endpoints     |-> PyDict([mcp            |-> PyStr("/mcp/"),
                               health         |-> PyStr("/health"),
                               oauth_callback |-> PyStr("/auth/callback")]),
     supported_architectures |-> PyList(<<"linux/amd64", "linux/arm64">>)])

\* mutant of get_oauth_status: a request without a token is answered, with
\* authenticated false
get_oauth_status_Anonymous(token) ==
  Returns(
    [authenticated |-> PyBool(token # None),
     user          |-> IF token = None THEN None ELSE claims_get(token, "login", None),
     scopes        |-> IF token = None THEN PyList(<<>>)
                       ELSE claims_get(token, "scopes", PyList(<<>>)),
     token_type    |-> PyStr("Bearer"),
     auth_provider |-> PyStr("GitHub"),
     client_id     |-> getenv("GITHUB_CLIENT_ID"),
     base_url      |-> getenv_default("BASE_URL", PyStr("http://localhost:8000"))])

\* mutant of get_oauth_status: the payload also reports the client secret
get_oauth_status_WithSecret(token) ==
  IF token = None THEN Raises("AttributeError")
  ELSE Returns(
    [authenticated |-> PyBool(TRUE),
     user          |-> claims_get(token, "login", None),
     scopes        |-> claims_get(token, "scopes", PyList(<<>>)),
     token_type    |-> PyStr("Bearer"),
     auth_provider |-> PyStr("GitHub"),
     client_id     |-> getenv("GITHUB_CLIENT_ID"),
     client_secret |-> getenv("GITHUB_CLIENT_SECRET"),
     base_url      |-> getenv_default("BASE_URL", PyStr("http://localhost:8000"))])

\* get_oauth_status(): reads the token, and the environment at call time
get_oauth_status(token) ==
  IF token = None THEN Raises("AttributeError")
  ELSE Returns(
    [authenticated |-> PyBool(TRUE),
     user          |-> claims_get(token, "login", None),
     scopes        |-> claims_get(token, "scopes", PyList(<<>>)),
     token_type    |-> PyStr("Bearer"),
     auth_provider |-> PyStr("GitHub"),
     client_id     |-> getenv("GITHUB_CLIENT_ID"),
     base_url      |-> getenv_default("BASE_URL", PyStr("http://localhost:8000"))])

ping ==
  Returns(
    [message   |-> PyStr("pong"),
     timestamp |-> PyStr("{{ .Date }}"),
     server    |-> PyStr("FastMCP GitHub OAuth Example")])

\* mutant of ToolDefs: ping is not decorated
ToolDefs_WithoutPing == <<"get_user_info", "get_server_info", "get_oauth_status">>

\* the functions decorated with @mcp.tool, in source order
ToolDefs == <<"get_user_info", "get_server_info", "get_oauth_status", "ping">>

\* mutant of Invoke: every tool, ping too, reads the claims of the token
Invoke_TokenRequired(name, token) ==
  IF token = None THEN Raises("AttributeError")
  ELSE CASE name = "get_user_info"    -> get_user_info(token)
         [] name = "get_server_info"  -> get_server_info
         [] name = "get_oauth_status" -> get_oauth_status(token)
         [] name = "ping"             -> ping

\* a call of the tool registered under name, for a request whose access
\* token is token
Invoke(name, token) ==
  CASE name = "get_user_info"    -> get_user_info(token)
    [] name = "get_server_info"  -> get_server_info
    [] name = "get_oauth_status" -> get_oauth_status(token)
    [] name = "ping"             -> ping


(* ------------------------------- state -------------------------------- *)

\* env            os.environ of the process
\* pc             the position of main(): "validate", "provider", "fastmcp",
\*                "tools", "return", "port", "host", "banner", "run",
\*                "serving", "respond", "except", "exited"
\* auth_provider  create_server's GitHubProvider, or None
\* mcp            create_server's FastMCP object, or None
\* server         main's mcp, the value create_server returned, or None
\* port, host     main's locals, or None
\* listening      whether mcp.run has started the HTTP listener
\* exc            the exception in flight in main's try block, or None
\* out            the lines printed
\* exitCode       the exit code of the process, or None while it runs
\* resp           the request being answered and its response

Init ==
  /\ env \in Environments
  /\ pc = "validate"
  /\ auth_provider = None
  /\ mcp = None
  /\ server = None
  /\ port = None
  /\ host = None
  /\ listening = FALSE
  /\ exc = None
  /\ out = <<>>
  /\ exitCode = None
  /\ resp = [op |-> "none"]

(* --------------------------- create_server ---------------------------- *)

\* mutant of required_env_vars: the secret is not required
required_env_vars_IdOnly == <<"GITHUB_CLIENT_ID">>

required_env_vars == <<"GITHUB_CLIENT_ID", "GITHUB_CLIENT_SECRET">>

IsMissing(var) == ~Truthy(getenv(var))

missing_vars == SelectSeq(required_env_vars, IsMissing)

\* mutant of Validate: the missing variables are computed and not checked
Validate_NoRaise ==
  /\ pc = "validate"
  /\ pc' = "provider"
  /\ UNCHANGED <<env, auth_provider, mcp, server, port, host, listening, exc, out, exitCode, resp>>

\* lines 26-32: raise ValueError when a required variable is missing
Validate ==
  /\ pc = "validate"
  /\ IF missing_vars # <<>>
     THEN /\ exc' = Raised("ValueError", <<"Missing required environment variables", missing_vars>>, "create_server")
          /\ pc' = "except"
     ELSE /\ exc' = exc
          /\ pc' = "provider"
  /\ UNCHANGED <<env, auth_provider, mcp, server, port, host, listening, out, exitCode, resp>>

\* lines 35-41: the provider reads the environment once, here
NewGitHubProvider ==
  /\ pc = "provider"
  /\ auth_provider' =
       PyObj([client_id       |-> getenv("GITHUB_CLIENT_ID"),
              client_secret   |-> getenv("GITHUB_CLIENT_SECRET"),
              base_url        |-> getenv_default("BASE_URL", PyStr("http://localhost:8000")),
              redirect_path   |-> PyStr("/auth/callback"),
              required_scopes |-> PyList(<<"user:email">>)])
  /\ pc' = "fastmcp"
  /\ UNCHANGED <<env, mcp, server, port, host, listening, exc, out, exitCode, resp>>

\* lines 44-48: the server object, with the provider and the health route
NewFastMCP ==
  /\ pc = "fastmcp"
  /\ mcp' = PyObj([name   |-> PyStr("GitHub OAuth Example Server"),
                   auth   |-> auth_provider,
                   routes |-> <<create_health_endpoint>>,
                   tools  |-> <<>>])
  /\ pc' = "tools"
  /\ UNCHANGED <<env, auth_provider, server, port, host, listening, exc, out, exitCode, resp>>

\* lines 50-109: each @mcp.tool registers the function under its name, in
\* source order
RegisterTool ==
  /\ pc = "tools"
  /\ LET n == Len(mcp[2].tools)
     IN  /\ mcp' = PyObj([mcp[2] EXCEPT !.tools = Append(@, ToolDefs[n + 1])])
         /\ pc' = IF n + 1 = Len(ToolDefs) THEN "return" ELSE "tools"
  /\ UNCHANGED <<env, auth_provider, server, port, host, listening, exc, out, exitCode, resp>>

\* lines 111 and 117: return mcp, bound to main's mcp
ReturnServer ==
  /\ pc = "return"
  /\ server' = mcp
  /\ pc' = "port"
  /\ UNCHANGED <<env, auth_provider, mcp, port, host, listening, exc, out, exitCode, resp>>

(* -------------------------------- main -------------------------------- *)

\* line 118: port = int(os.getenv("PORT", "8000"))
ReadPort ==
  /\ pc = "port"
  /\ LET s == getenv_default("PORT", PyStr("8000"))
         r == int(s[2])
     IN  IF r[1] = "ok"
         THEN /\ port' = PyInt(r[2])
              /\ exc' = exc
              /\ pc' = "host"
         ELSE /\ port' = port
              /\ exc' = Raised(r[2], <<"invalid literal for int() with base 10", s[2]>>, "int")
              /\ pc' = "except"
  /\ UNCHANGED <<env, auth_provider, mcp, server, host, listening, out, exitCode, resp>>

\* line 119: host = os.getenv("HOST", "0.0.0.0")
ReadHost ==
  /\ pc = "host"
  /\ host' = getenv_default("HOST", PyStr("0.0.0.0"))
  /\ pc' = "banner"
  /\ UNCHANGED <<env, auth_provider, mcp, server, port, listening, exc, out, exitCode, resp>>

\* lines 121-128: the startup banner
PrintBanner ==
  /\ pc = "banner"
  /\ out' = out \o <<<<"Starting FastMCP GitHub OAuth Example Server">>,
                     <<"Server", host, port>>,
                     <<"MCP Endpoint", host, port>>,
                     <<"OAuth Callback", host, port>>,
                     <<"Health Check", host, port>>,
                     <<"Available Tools", "get_user_info, get_server_info, get_oauth_status, ping">>>>
  /\ pc' = "run"
  /\ UNCHANGED <<env, auth_provider, mcp, server, port, host, listening, exc, exitCode, resp>>

\* what mcp.run can do when called: start the listener and block serving, or
\* raise (the address is in use, the host does not resolve)
RunOutcomes == {"serve", "OSError"}

\* line 130: mcp.run(transport="http", port=port, host=host)
Run ==
  /\ pc = "run"
  /\ \E o \in RunOutcomes :
       IF o = "serve"
       THEN /\ listening' = TRUE
            /\ exc' = exc
            /\ pc' = "serving"
       ELSE /\ listening' = listening
            /\ exc' = Raised(o, <<"bind", host, port>>, "run")
            /\ pc' = "except"
  /\ UNCHANGED <<env, auth_provider, mcp, server, port, host, out, exitCode, resp>>

\* line 130, later: the listener is shut down from outside, mcp.run returns
\* and main returns
RunReturns ==
  /\ pc = "serving"
  /\ listening' = FALSE
  /\ exitCode' = PyInt(0)
  /\ pc' = "exited"
  /\ UNCHANGED <<env, auth_provider, mcp, server, port, host, exc, out, resp>>

\* lines 131-134: except ValueError
ExceptValueError ==
  /\ pc = "except"
  /\ isinstance(exc, "ValueError")
  /\ out' = out \o <<<<"Configuration Error", exc[2].msg>>,
                     <<"Make sure to set GITHUB_CLIENT_ID and GITHUB_CLIENT_SECRET">>>>
  /\ exitCode' = PyInt(1)
  /\ pc' = "exited"
  /\ UNCHANGED <<env, auth_provider, mcp, server, port, host, listening, exc, resp>>

\* lines 135-137: except Exception, tried after except ValueError
ExceptException ==
  /\ pc = "except"
  /\ ~isinstance(exc, "ValueError")
  /\ isinstance(exc, "Exception")
  /\ out' = out \o <<<<"Server Error", exc[2].msg>>>>
  /\ exitCode' = PyInt(1)
  /\ pc' = "exited"
  /\ UNCHANGED <<env, auth_provider, mcp, server, port, host, listening, exc, resp>>

(* ------------------------------ requests ------------------------------ *)

\* the GET requests to /health of the model
HealthRequests ==
  [method : {"GET"}, path : {"/health"}, query : {"", "verbose=1"},
   token : {None, PyObj([claims |-> <<>>])}]

\* a GET /health request is routed to the health handler
Health ==
  /\ pc = "serving"
  /\ \E request \in HealthRequests :
       \E route \in {server[2].routes[i] : i \in DOMAIN server[2].routes} :
         /\ route.path = request.path
         /\ request.method \in route.methods
         /\ resp' = [op |-> route.endpoint, request |-> request,
                     response |-> health(request)]
  /\ pc' = "respond"
  /\ UNCHANGED <<env, auth_provider, mcp, server, port, host, listening, exc, out, exitCode>>

\* a call of a registered tool; an exception of the handler is answered
\* with an error by the framework and the server keeps serving
CallTool ==
  /\ pc = "serving"
  /\ \E i \in DOMAIN server[2].tools :
       \E token \in AccessTokens :
         resp' = [op |-> server[2].tools[i], token |-> token,
                  result |-> Invoke(server[2].tools[i], token)]
  /\ pc' = "respond"
  /\ UNCHANGED <<env, auth_provider, mcp, server, port, host, listening, exc, out, exitCode>>

\* the response is sent and the server waits for the next request; the
\* handlers keep nothing of a request behind
SendResponse ==
  /\ pc = "respond"
  /\ resp' = [op |-> "none"]
  /\ pc' = "serving"
  /\ UNCHANGED <<env, auth_provider, mcp, server, port, host, listening, exc, out, exitCode>>

Next ==
  \/ Validate
  \/ NewGitHubProvider
  \/ NewFastMCP
  \/ RegisterTool
  \/ ReturnServer
  \/ ReadPort
  \/ ReadHost
  \/ PrintBanner
  \/ Run
  \/ RunReturns
  \/ ExceptValueError
  \/ ExceptException
  \/ Health
  \/ CallTool
  \/ SendResponse

Spec == Init /\ [][Next]_vars


(* ------------------------- notions of the claims ---------------------- *)

IsSet(var) == var \in DOMAIN env

\* set, and to a string that is not empty
IsNonEmpty(var) == IsSet(var) /\ env[var] # ""

InCreateServer == pc \in {"validate", "provider", "fastmcp", "tools", "return"}

CreateServerRaised == exc # None /\ exc[2].origin = "create_server"

FourTools == {"get_user_info", "get_server_info", "get_oauth_status", "ping"}

RegisteredTools(srv) == {srv[2].tools[i] : i \in DOMAIN srv[2].tools}

\* create_server has returned a server with exactly the four tools
ReturnedFourTools ==
  /\ server # None
  /\ Len(server[2].tools) = 4
  /\ RegisteredTools(server) = FourTools

Printed(tag) == \E i \in DOMAIN out : out[i][1] = tag

(* --------------------------------- C1 --------------------------------- *)

\* C1, as stated: whenever GITHUB_CLIENT_ID and GITHUB_CLIENT_SECRET are both
\* set, create_server raises nothing and returns a server with exactly the
\* four tools.  It fails when one of them is set to the empty string.
C1_AsStated ==
  (IsSet("GITHUB_CLIENT_ID") /\ IsSet("GITHUB_CLIENT_SECRET"))
    => /\ ~CreateServerRaised
       /\ ~InCreateServer => ReturnedFourTools

\* C1, amended: whenever GITHUB_CLIENT_ID and GITHUB_CLIENT_SECRET are both
\* set to non-empty values, create_server raises nothing and the server it
\* returns has exactly the four tools get_user_info, get_server_info,
\* get_oauth_status and ping, for every value of the optional variables.
C1_NonEmptyGivesFourTools ==
  (IsNonEmpty("GITHUB_CLIENT_ID") /\ IsNonEmpty("GITHUB_CLIENT_SECRET"))
    => /\ ~CreateServerRaised
       /\ ~InCreateServer => ReturnedFourTools

C1_Witness ==
  /\ IsNonEmpty("GITHUB_CLIENT_ID") /\ IsNonEmpty("GITHUB_CLIENT_SECRET")
  /\ IsSet("PORT") /\ env["PORT"] = "abc" /\ IsSet("BASE_URL")
  /\ pc = "port"
  /\ ReturnedFourTools

(* --------------------------------- C2 --------------------------------- *)

\* C2: whenever GITHUB_CLIENT_ID or GITHUB_CLIENT_SECRET is missing (only
\* the id, only the secret, or both), create_server raises and returns no
\* server, and main goes on to end the process with exit code 1.
C2_MissingExitsOne ==
  (~IsSet("GITHUB_CLIENT_ID") \/ ~IsSet("GITHUB_CLIENT_SECRET"))
    => /\ server = None
       /\ pc \in {"validate", "except", "exited"}
       /\ pc # "validate" => CreateServerRaised
       /\ pc = "exited" => exitCode = PyInt(1)
       /\ pc # "exited" => ENABLED Next

C2_Witness ==
  /\ IsNonEmpty("GITHUB_CLIENT_ID") /\ ~IsSet("GITHUB_CLIENT_SECRET")
  /\ pc = "exited"
  /\ CreateServerRaised
  /\ server = None
  /\ exitCode = PyInt(1)

(* --------------------------------- C3 --------------------------------- *)

\* C3: in main the 'Configuration Error' report occurs only when a required
\* environment variable is missing, every other exception raised during
\* startup gets the 'Server Error' report, and the exit code is 1 in both
\* cases.  The code violates it: a PORT that int() rejects raises ValueError
\* too, and is reported as a configuration error.
C3_ConfigErrorOnlyWhenMissing ==
  /\ Printed("Configuration Error") => missing_vars # <<>>
  /\ (pc = "exited" /\ exc # None /\ ~CreateServerRaised) => Printed("Server Error")
  /\ (pc = "exited" /\ exc # None) => exitCode = PyInt(1)


(* --------------------------------- C4 --------------------------------- *)

\* C4: every GET request to /health is answered with the JSON object
\* {"status": "healthy", "service": "fastmcp-github-oauth", "version":
\* "0.1.0"}, whatever the request holds, whatever the environment, whether
\* or not the caller is authenticated, and whatever was served before.
C4_HealthIsConstant ==
  resp.op = "health"
    => /\ DOMAIN resp.response.body = {"status", "service", "version"}
       /\ resp.response.body.status = PyStr("healthy")
       /\ resp.response.body.service = PyStr("fastmcp-github-oauth")
       /\ resp.response.body.version = PyStr("0.1.0")

C4_Witness ==
  /\ resp.op = "health"
  /\ resp.request.token = None
  /\ resp.request.query # ""
  /\ IsSet("BASE_URL")
  /\ resp.response.body.status = PyStr("healthy")

(* --------------------------------- C5 --------------------------------- *)

\* C5: every call of ping returns a payload whose "message" is "pong",
\* whatever the token (present or not, whatever its claims) and the
\* environment.
C5_PingIsPong ==
  resp.op = "ping"
    => /\ resp.result[1] = "ok"
       /\ resp.result[2].message = PyStr("pong")

C5_Witness ==
  /\ resp.op = "ping"
  /\ resp.token = None
  /\ IsSet("HOST")
  /\ resp.result[1] = "ok"
  /\ resp.result[2].message = PyStr("pong")

(* --------------------------------- C6 --------------------------------- *)

\* C6: every payload get_oauth_status returns has "authenticated" equal to
\* true, and a payload is returned only for a request whose access token is
\* present.
C6_AuthenticatedAlwaysTrue ==
  (resp.op = "get_oauth_status" /\ resp.result[1] = "ok")
    => /\ resp.result[2].authenticated = PyBool(TRUE)
       /\ resp.token # None

C6_Witness ==
  /\ resp.op = "get_oauth_status"
  /\ resp.token # None
  /\ "login" \in DOMAIN resp.token[2].claims
  /\ resp.result[1] = "ok"
  /\ resp.result[2].authenticated = PyBool(TRUE)

(* --------------------------------- C7 --------------------------------- *)

\* the integer a PORT of the model stands for, where int() accepts it
C7_PortAccepted == IsSet("PORT") /\ env["PORT"] \in {"9000", " 80"}

C7_PortMeant == IF env["PORT"] = "9000" THEN 9000 ELSE 80

\* C7: BASE_URL, PORT and HOST are optional.  Absent, they stand for
\* "http://localhost:8000", 8000 and "0.0.0.0", and startup never fails for
\* their absence; set, the set value is the one used.
C7_OptionalDefaulted ==
  /\ auth_provider # None =>
       auth_provider[2].base_url =
         IF IsSet("BASE_URL") THEN PyStr(env["BASE_URL"])
         ELSE PyStr("http://localhost:8000")
  /\ port # None =>
       IF IsSet("PORT") THEN C7_PortAccepted /\ port = PyInt(C7_PortMeant)
       ELSE port = PyInt(8000)
  /\ host # None =>
       host = IF IsSet("HOST") THEN PyStr(env["HOST"]) ELSE PyStr("0.0.0.0")
  /\ pc \in {"host", "banner", "run", "serving", "respond"} => port # None
  /\ pc \in {"banner", "run", "serving", "respond"} => host # None
  /\ (exc # None /\ exc[2].origin = "int") => IsSet("PORT")
  /\ (exc # None /\ missing_vars = <<>> /\ ~IsSet("PORT")) => exc[2].origin = "run"

C7_Witness ==
  /\ IsSet("BASE_URL") /\ ~IsSet("PORT") /\ ~IsSet("HOST")
  /\ pc = "serving"
  /\ listening
  /\ auth_provider[2].base_url = PyStr("https://mcp.example.com")
  /\ port = PyInt(8000)
  /\ host = PyStr("0.0.0.0")

(* --------------------------------- C8 --------------------------------- *)

\* C8: startup validates the configuration, then constructs the provider,
\* then registers the tools, then starts the listener, and a failed step
\* stops it: with a required variable missing the provider is never
\* constructed, no tool is registered and the listener is never started
\* before the exit with code 1; the listener is started only once
\* create_server has returned a server.
C8_StartupOrder ==
  /\ auth_provider # None => missing_vars = <<>>
  /\ mcp # None => auth_provider # None /\ mcp[2].auth = auth_provider
  /\ server # None => server = mcp /\ RegisteredTools(mcp) = FourTools
  /\ listening => server # None /\ port # None /\ host # None
  /\ exc # None => ~listening /\ pc \in {"except", "exited"}
  /\ missing_vars # <<>> =>
       /\ auth_provider = None
       /\ mcp = None
       /\ ~listening
       /\ pc = "exited" => exitCode = PyInt(1)

C8_Witness ==
  /\ missing_vars = <<"GITHUB_CLIENT_ID">>
  /\ pc = "exited"
  /\ exitCode = PyInt(1)
  /\ auth_provider = None
  /\ mcp = None
  /\ ~listening

(* --------------------------------- C9 --------------------------------- *)

C9_Keys ==
  {"github_user", "name", "email", "avatar_url", "company", "location",
   "public_repos", "followers", "following", "bio", "blog", "created_at",
   "updated_at"}

\* the claim a key of the payload is copied from
C9_ClaimOf(k) == IF k = "github_user" THEN "login" ELSE k

\* C9: for every claims mapping of an authenticated token, get_user_info
\* returns a payload with exactly the 13 keys; github_user carries the
\* claim "login" and every other key the claim of its own name, unmodified;
\* a key whose claim is absent carries null; no other claim appears.
C9_UserInfoCopiesClaims ==
  (resp.op = "get_user_info" /\ resp.token # None)
    => /\ resp.result[1] = "ok"
       /\ DOMAIN resp.result[2] = C9_Keys
       /\ \A k \in C9_Keys :
            resp.result[2][k] =
              IF C9_ClaimOf(k) \in DOMAIN resp.token[2].claims
              THEN resp.token[2].claims[C9_ClaimOf(k)]
              ELSE None

C9_Witness ==
  /\ resp.op = "get_user_info"
  /\ resp.token # None
  /\ DOMAIN resp.token[2].claims = {"login", "github_user"}
  /\ resp.token[2].claims["login"] # resp.token[2].claims["github_user"]
  /\ resp.result[1] = "ok"
  /\ resp.result[2].github_user = resp.token[2].claims["login"]
  /\ resp.result[2].name = None

(* --------------------------------- C10 -------------------------------- *)

C10_Payload == resp.op = "get_oauth_status" /\ resp.result[1] = "ok"

C10_ReportsProviderValues ==
  /\ resp.result[2].client_id = auth_provider[2].client_id
  /\ resp.result[2].base_url = auth_provider[2].base_url

====
